---- MODULE Spec2Model ----
(***************************************************************************)
(* CareAssist.ai: the credential-gated Google Drive query flow.            *)
(*                                                                         *)
(*   main.py                   authenticate_google_drive, find_folder_id,  *)
(*                             list_files_in_folder                        *)
(*   healthcare_mcp_server.py  get_google_drive_service,                   *)
(*                             search_medical_documents,                   *)
(*                             get_latest_lab_results                      *)
(*                                                                         *)
(* An invocation is one call of one of these entry points by an operating  *)
(* system process.  Its steps are the places where the code talks to the   *)
(* outside: the token file, the OAuth endpoints, the Drive API.  What the  *)
(* outside answers (a response, a page, a chunk, a failure) is drawn from  *)
(* small sets.  Optional values (Python None, an absent dictionary key, an *)
(* absent file) are sequences of length 0 or 1.                            *)
(***************************************************************************)
EXTENDS Integers, Sequences, FiniteSets, TLC

\* ------------------------------------------------------------------ bounds
MaxTime == 1        \* the clock runs over 0..MaxTime
Lifetime == 1       \* seconds a freshly issued access token stays valid
MaxCalls == 2       \* invocations started in one behaviour
MaxFolders == 2     \* folders of one name the remote store may hold
MaxFiles == 2       \* objects a remote listing may match
MaxChunks == 2      \* chunks the transport may report for one object
MaxChunkLen == 1    \* bytes in one chunk

\* --------------------------------------------------------------- constants
LIST_PAGE_SIZE == 1000     \* pageSize of list_files_in_folder's query
SEARCH_PAGE_SIZE == 10     \* pageSize of search_medical_documents's query
LAB_PAGE_SIZE == 1         \* pageSize of get_latest_lab_results's query

Procs == {"p1", "p2"}

ProviderEntries == {"authenticate_google_drive", "get_google_drive_service"}

FlowEntries ==
    {"list_files_in_folder", "search_medical_documents", "get_latest_lab_results"}

TokenFiles == {"token.pickle", "token.json"}

Programs == {"main.py", "healthcare_mcp_server.py"}

\* The functions each script defines.
EntriesOf(prog) ==
    IF prog = "main.py"
    THEN {"authenticate_google_drive", "list_files_in_folder"}
    ELSE {"get_google_drive_service", "search_medical_documents",
          "get_latest_lab_results"}

\* ASCII 'A', and the two bytes of U+00E9: alone neither 0xC3 nor 0xA9 is UTF-8.
Bytes == {65, 195, 169}

None == <<>>

Some(x) == <<x>>

Min(a, b) == IF a < b THEN a ELSE b

VARIABLES
    program,        \* the script this behaviour runs: each is a program of its own
    now,            \* wall clock
    store,          \* token file -> its content, None when the file is absent
    issued,         \* access tokens the authorization server has issued
    calls,          \* invocations started
    pc,             \* per process: where its invocation stands
    entry,          \* per process: the entry point it called
    creds,          \* per process: local creds
    result,         \* per process: what the entry point returned or raised
    loaded,         \* per process: the token file's content when it was read
    loadedAt,       \* per process: the time it was read
    failedAt,       \* per process: the failure the invocation met, "" if none
    refreshCalls,   \* per process: creds.refresh calls of this invocation
    authCalls,      \* per process: flow.run_local_server calls
    saves,          \* per process: writes of the token file
    folders,        \* per process: the folder query's response, None before it
    folder_id,      \* per process: find_folder_id's return value
    remote,         \* per process: the objects the listed folder holds remotely
    fileQueries,    \* per process: file-listing queries issued
    fh,             \* per process: the download buffer (io.BytesIO)
    chunks,         \* per process: the chunks the transport reported, in order
    done,           \* per process: local done of the download loop
    chunkCalls      \* per process: downloader.next_chunk calls

authVars == <<creds, loaded, loadedAt, refreshCalls, authCalls, saves>>
listVars == <<folders, folder_id, remote, fileQueries>>
dlVars == <<fh, chunks, done, chunkCalls>>
envVars == <<program, now, store, issued, calls>>
vars == <<program, now, store, issued, calls, pc, entry, creds, result, loaded, loadedAt,
          failedAt, refreshCalls, authCalls, saves, folders, folder_id, remote,
          fileQueries, fh, chunks, done, chunkCalls>>

\* ------------------------------------------------------------- credentials
Credential(t, x, r) == [token |-> t, expiry |-> x, refresh_token |-> r]

\* google.oauth2 Credentials.expired / .valid, read at time t.
Expired(c, t) == t >= c.expiry

\* Mutation: the validity test inverted.
ValidInverted(c, t) == Expired(c, t)

Valid(c, t) == ~Expired(c, t)

\* `if not creds or not creds.valid`
NeedsLogin(c, t) == c = None \/ ~Valid(c[1], t)

\* `if creds and creds.expired and creds.refresh_token` (main.py only;
\* healthcare_mcp_server.py has no refresh branch).
HasRefreshBranch(e) == e \in {"authenticate_google_drive", "list_files_in_folder"}

CanRefresh(e, c, t) ==
    /\ HasRefreshBranch(e)
    /\ c # None
    /\ Expired(c[1], t)
    /\ c[1].refresh_token

TokenFile(e) == IF HasRefreshBranch(e) THEN "token.pickle" ELSE "token.json"

\* pickle.dump keeps the object's attributes.  creds.to_json() writes the
\* members token, refresh_token (null when there is none, here 0) and expiry;
\* Credentials.from_authorized_user_file reads them back.
Dump(f, c) ==
    IF f = "token.pickle" THEN c
    ELSE <<c.token, IF c.refresh_token THEN 1 ELSE 0, c.expiry>>

Load(f, blob) ==
    IF f = "token.pickle" THEN blob
    ELSE Credential(blob[1], blob[3], blob[2] # 0)

\* ----------------------------------------------------------------- results
Res(k, pre, m, xs) == [kind |-> k, prefix |-> pre, msg |-> m, items |-> xs]

NoResult == Res("none", "", "", <<>>)

\* Mutation: list_files_in_folder without its try/except.
CatchesOnlyTools(e) ==
    e \in {"search_medical_documents", "get_latest_lab_results"}

\* The entry points whose body is wrapped in `try: ... except Exception as e`.
Catches(e) == e \in FlowEntries

\* What an exception with message m raised inside entry point e turns into.
Except(e, m) ==
    IF ~Catches(e) THEN Res("raised", "", m, <<>>)
    ELSE IF e = "list_files_in_folder" THEN Res("list", "", "", <<>>)
    ELSE IF e = "search_medical_documents"
         THEN Res("error", "Error accessing documents: ", m, <<>>)
    ELSE Res("error", "Error retrieving lab results: ", m, <<>>)

\* An exception at failure point m ends the invocation.
Raise(p, m) ==
    /\ pc' = [pc EXCEPT ![p] = "done"]
    /\ result' = [result EXCEPT ![p] = Except(entry[p], m)]
    /\ failedAt' = [failedAt EXCEPT ![p] = m]

\* After `build('drive', 'v3', credentials=creds)`: a provider called on its
\* own returns the service, a flow goes on to its first query.
WithService(p, c) ==
    /\ failedAt' = failedAt
    /\ IF entry[p] \in ProviderEntries
       THEN /\ pc' = [pc EXCEPT ![p] = "done"]
            /\ result' = [result EXCEPT ![p] = Res("service", "", "", c)]
       ELSE /\ pc' = [pc EXCEPT ![p] =
                       IF entry[p] = "list_files_in_folder" THEN "find_folder"
                       ELSE IF entry[p] = "search_medical_documents" THEN "search"
                       ELSE "lab_query"]
            /\ result' = result

\* ------------------------------------------------------- the remote store
\* A Drive files.list response is a dictionary; the 'files' and
\* 'nextPageToken' keys may be absent.
Response(fs, tok) == [files |-> fs, nextPageToken |-> tok]

\* results.get('files', [])
GetFiles(results) == IF results.files = None THEN <<>> ELSE results.files[1]

\* A folder-name query matches n folders; the service may leave out 'files'
\* when nothing matches.
FolderResponses ==
    {Response(None, None)} \cup
    { Response(Some([i \in 1..n |-> [id |-> i]]), None) : n \in 0..MaxFolders }

\* The objects a file query matches, in the order the service lists them.
\* 'size' is a string in the Drive API and is absent for some objects.
RemoteListings ==
    UNION { { [i \in 1..n |-> [id |-> i, size |-> sz[i]]] :
                sz \in [1..n -> {None, Some("10")}] } : n \in 0..MaxFiles }

\* The service answers a query with one page: the first k matches, k at most
\* pageSize (a page may hold fewer), and a continuation token when matches
\* remain.
PageLens(listing, pageSize) ==
    IF listing = <<>> THEN {0} ELSE 1..Min(Len(listing), pageSize)

Page(listing, k) ==
    Response(Some(SubSeq(listing, 1, k)),
             IF k < Len(listing) THEN Some(k) ELSE None)

\* main.py 41-51.
find_folder_id(results) ==
    LET fs == GetFiles(results)
    IN IF fs = <<>> THEN None ELSE Some(fs[1].id)

\* Mutation: the not-found test dropped.
FolderMissingNever(id) == FALSE

\* main.py 70: `if not folder_id`
FolderMissing(id) == id = None

\* main.py 93-101: file.get('size', 'N/A').
file_info(file) ==
    [id |-> file.id, size |-> IF file.size = None THEN "N/A" ELSE file.size[1]]

\* main.py 82-110: the first response's files, and nothing else.
file_list(results) ==
    LET files == GetFiles(results)
    IN [i \in 1..Len(files) |-> file_info(files[i])]

\* ------------------------------------------------------------ the download
Chunks == UNION { [1..n -> Bytes] : n \in 0..MaxChunkLen }

RECURSIVE Flatten(_)
Flatten(cs) == IF cs = <<>> THEN <<>> ELSE Head(cs) \o Flatten(Tail(cs))

\* Mutation: each chunk replaces the buffer.
WriteChunkOverwrite(buf, chunk) == chunk

\* MediaIoBaseDownload.next_chunk writes the chunk at the end of fh.
WriteChunk(buf, chunk) == buf \o chunk

\* bytes.decode('utf-8') over one- and two-byte sequences: None when the
\* bytes are not valid UTF-8, else the code points.
RECURSIVE Utf8Decode(_)
Utf8Decode(bs) ==
    IF bs = <<>> THEN Some(<<>>)
    ELSE IF bs[1] < 128
         THEN LET rest == Utf8Decode(Tail(bs))
              IN IF rest = None THEN None ELSE Some(<<bs[1]>> \o rest[1])
    ELSE IF bs[1] >= 194 /\ bs[1] <= 223 /\ Len(bs) >= 2
            /\ bs[2] >= 128 /\ bs[2] <= 191
         THEN LET rest == Utf8Decode(Tail(Tail(bs)))
              IN IF rest = None THEN None
                 ELSE Some(<<(bs[1] - 192) * 64 + (bs[2] - 128)>> \o rest[1])
    ELSE None

\* ------------------------------------------------------------------- Init
\* A script reads and writes its own token file only; the other script's
\* file plays no part in its run and is left out (absent).  The script's file
\* is absent, or holds a credential written by an earlier run: one already
\* expired, or one that expires when the clock reaches MaxTime.
InitialBlobs(f) ==
    {None} \cup
    { Some(Dump(f, Credential(0, x, r))) : x \in {0, MaxTime}, r \in BOOLEAN }

Init ==
    /\ program \in Programs
    /\ now = 0
    /\ \E f \in TokenFiles :
         /\ \A e \in EntriesOf(program) : TokenFile(e) = f
         /\ \E blob \in InitialBlobs(f) :
              store = [g \in TokenFiles |-> IF g = f THEN blob ELSE None]
    /\ issued = 0
    /\ calls = 0
    /\ pc = [p \in Procs |-> "idle"]
    /\ entry = [p \in Procs |-> "authenticate_google_drive"]
    /\ creds = [p \in Procs |-> None]
    /\ result = [p \in Procs |-> NoResult]
    /\ loaded = [p \in Procs |-> None]
    /\ loadedAt = [p \in Procs |-> 0]
    /\ failedAt = [p \in Procs |-> ""]
    /\ refreshCalls = [p \in Procs |-> 0]
    /\ authCalls = [p \in Procs |-> 0]
    /\ saves = [p \in Procs |-> 0]
    /\ folders = [p \in Procs |-> None]
    /\ folder_id = [p \in Procs |-> None]
    /\ remote = [p \in Procs |-> <<>>]
    /\ fileQueries = [p \in Procs |-> 0]
    /\ fh = [p \in Procs |-> <<>>]
    /\ chunks = [p \in Procs |-> <<>>]
    /\ done = [p \in Procs |-> FALSE]
    /\ chunkCalls = [p \in Procs |-> 0]

\* ---------------------------------------------------------------- actions
\* Only the credential steps read the clock; a tick anywhere else commutes
\* with the step that follows it, so time moves only where it can be seen.
Tick ==
    /\ now < MaxTime
    /\ \A p \in Procs : pc[p] \in {"idle", "done", "refresh", "authorize"}
    /\ now' = now + 1
    /\ UNCHANGED <<program, store, issued, calls, pc, entry, result, failedAt,
                   authVars, listVars, dlVars>>

\* A process calls entry point e: a fresh frame.
Start(p, e) ==
    /\ pc[p] \in {"idle", "done"}
    /\ calls < MaxCalls
    /\ calls' = calls + 1
    /\ pc' = [pc EXCEPT ![p] = "load"]
    /\ entry' = [entry EXCEPT ![p] = e]
    /\ creds' = [creds EXCEPT ![p] = None]
    /\ result' = [result EXCEPT ![p] = NoResult]
    /\ loaded' = [loaded EXCEPT ![p] = None]
    /\ loadedAt' = [loadedAt EXCEPT ![p] = 0]
    /\ failedAt' = [failedAt EXCEPT ![p] = ""]
    /\ refreshCalls' = [refreshCalls EXCEPT ![p] = 0]
    /\ authCalls' = [authCalls EXCEPT ![p] = 0]
    /\ saves' = [saves EXCEPT ![p] = 0]
    /\ folders' = [folders EXCEPT ![p] = None]
    /\ folder_id' = [folder_id EXCEPT ![p] = None]
    /\ remote' = [remote EXCEPT ![p] = <<>>]
    /\ fileQueries' = [fileQueries EXCEPT ![p] = 0]
    /\ fh' = [fh EXCEPT ![p] = <<>>]
    /\ chunks' = [chunks EXCEPT ![p] = <<>>]
    /\ done' = [done EXCEPT ![p] = FALSE]
    /\ chunkCalls' = [chunkCalls EXCEPT ![p] = 0]
    /\ UNCHANGED <<program, now, store, issued>>

Call(p) == \E e \in EntriesOf(program) : Start(p, e)

CallProvider(p) == \E e \in EntriesOf(program) \cap ProviderEntries : Start(p, e)

\* main.py 18-27 / healthcare_mcp_server.py 48-53: read the token file if it
\* exists, then decide between using, refreshing and re-authorizing.
LoadToken(p) ==
    /\ pc[p] = "load"
    /\ LET f == TokenFile(entry[p])
           blob == store[f]
       IN \E ok \in BOOLEAN :
            IF blob # None /\ ~ok
            THEN /\ Raise(p, "load failed")
                 /\ UNCHANGED <<envVars, entry, authVars, listVars, dlVars>>
            ELSE LET c == IF blob = None THEN None ELSE Some(Load(f, blob[1]))
                 IN /\ creds' = [creds EXCEPT ![p] = c]
                    /\ loaded' = [loaded EXCEPT ![p] = blob]
                    /\ loadedAt' = [loadedAt EXCEPT ![p] = now]
                    /\ IF ~NeedsLogin(c, now)
                       THEN WithService(p, c)
                       ELSE /\ pc' = [pc EXCEPT ![p] =
                                       IF CanRefresh(entry[p], c, now)
                                       THEN "refresh" ELSE "authorize"]
                            /\ UNCHANGED <<result, failedAt>>
                    /\ UNCHANGED <<envVars, entry, refreshCalls, authCalls, saves,
                                   listVars, dlVars>>

\* main.py 28: creds.refresh(Request()) mutates creds in place, or raises.
Refresh(p) ==
    /\ pc[p] = "refresh"
    /\ refreshCalls' = [refreshCalls EXCEPT ![p] = @ + 1]
    /\ \E ok \in BOOLEAN :
         IF ok
         THEN /\ issued' = issued + 1
              /\ creds' = [creds EXCEPT ![p] =
                            Some(Credential(issued + 1, now + Lifetime, TRUE))]
              /\ pc' = [pc EXCEPT ![p] = "save"]
              /\ UNCHANGED <<result, failedAt>>
         ELSE /\ Raise(p, "refresh failed")
              /\ UNCHANGED <<issued, creds>>
    /\ UNCHANGED <<program, now, store, calls, entry, loaded, loadedAt,
                   authCalls, saves, listVars, dlVars>>

\* main.py 30-32 / healthcare_mcp_server.py 54-55: interactive authorization.
Authorize(p) ==
    /\ pc[p] = "authorize"
    /\ authCalls' = [authCalls EXCEPT ![p] = @ + 1]
    /\ \E ok \in BOOLEAN :
         IF ok
         THEN /\ issued' = issued + 1
              /\ \E r \in BOOLEAN :
                   creds' = [creds EXCEPT ![p] =
                              Some(Credential(issued + 1, now + Lifetime, r))]
              /\ pc' = [pc EXCEPT ![p] = "save"]
              /\ UNCHANGED <<result, failedAt>>
         ELSE /\ Raise(p, "authorization failed")
              /\ UNCHANGED <<issued, creds>>
    /\ UNCHANGED <<program, now, store, calls, entry, loaded, loadedAt,
                   refreshCalls, saves, listVars, dlVars>>

\* main.py 35-38 / healthcare_mcp_server.py 56-59: overwrite the token file,
\* build the service.
SaveToken(p) ==
    /\ pc[p] = "save"
    /\ store' = [store EXCEPT ![TokenFile(entry[p])] =
                  Some(Dump(TokenFile(entry[p]), creds[p][1]))]
    /\ saves' = [saves EXCEPT ![p] = @ + 1]
    /\ WithService(p, creds[p])
    /\ UNCHANGED <<program, now, issued, calls, entry, creds, loaded, loadedAt,
                   refreshCalls, authCalls, listVars, dlVars>>

\* main.py 68-72: the folder query, find_folder_id and the not-found return.
FindFolder(p) ==
    /\ pc[p] = "find_folder"
    /\ \E ok \in BOOLEAN :
         IF ~ok
         THEN /\ Raise(p, "folder query failed")
              /\ UNCHANGED <<folders, folder_id>>
         ELSE \E results \in FolderResponses :
                LET id == find_folder_id(results)
                IN /\ folders' = [folders EXCEPT ![p] = Some(results)]
                   /\ folder_id' = [folder_id EXCEPT ![p] = id]
                   /\ failedAt' = failedAt
                   /\ IF FolderMissing(id)
                      THEN /\ pc' = [pc EXCEPT ![p] = "done"]
                           /\ result' = [result EXCEPT ![p] = Res("list", "", "", <<>>)]
                      ELSE /\ pc' = [pc EXCEPT ![p] = "list_files"]
                           /\ result' = result
    /\ UNCHANGED <<envVars, entry, authVars, remote, fileQueries, dlVars>>

\* main.py 75-110: one files.list call; its first page becomes the result.
ListFiles(p) ==
    /\ pc[p] = "list_files"
    /\ fileQueries' = [fileQueries EXCEPT ![p] = @ + 1]
    /\ \E ok \in BOOLEAN :
         IF ~ok
         THEN /\ Raise(p, "file query failed")
              /\ remote' = remote
         ELSE \E listing \in RemoteListings :
              \E k \in PageLens(listing, LIST_PAGE_SIZE) :
                /\ remote' = [remote EXCEPT ![p] = listing]
                /\ pc' = [pc EXCEPT ![p] = "done"]
                /\ result' = [result EXCEPT ![p] =
                                Res("list", "", "", file_list(Page(listing, k)))]
                /\ failedAt' = failedAt
    /\ UNCHANGED <<envVars, entry, authVars, folders, folder_id, dlVars>>

\* healthcare_mcp_server.py 112-126.
SearchDocuments(p) ==
    /\ pc[p] = "search"
    /\ fileQueries' = [fileQueries EXCEPT ![p] = @ + 1]
    /\ \E ok \in BOOLEAN :
         IF ~ok
         THEN /\ Raise(p, "file query failed")
              /\ remote' = remote
         ELSE \E listing \in RemoteListings :
              \E k \in PageLens(listing, SEARCH_PAGE_SIZE) :
                LET files == GetFiles(Page(listing, k))
                IN /\ remote' = remote
                   /\ pc' = [pc EXCEPT ![p] = "done"]
                   /\ result' = [result EXCEPT ![p] =
                                   IF files = <<>>
                                   THEN Res("text", "No documents found", "", <<>>)
                                   ELSE Res("text", "Found document(s):", "",
                                            [i \in 1..Len(files) |-> files[i].id])]
                   /\ failedAt' = failedAt
    /\ UNCHANGED <<envVars, entry, authVars, folders, folder_id, dlVars>>

\* healthcare_mcp_server.py 139-161: the newest match, if any, is downloaded.
LabQuery(p) ==
    /\ pc[p] = "lab_query"
    /\ fileQueries' = [fileQueries EXCEPT ![p] = @ + 1]
    /\ \E ok \in BOOLEAN :
         IF ~ok
         THEN /\ Raise(p, "file query failed")
              /\ remote' = remote
         ELSE \E listing \in RemoteListings :
              \E k \in PageLens(listing, LAB_PAGE_SIZE) :
                LET files == GetFiles(Page(listing, k))
                IN /\ remote' = remote
                   /\ failedAt' = failedAt
                   /\ IF files = <<>>
                      THEN /\ pc' = [pc EXCEPT ![p] = "done"]
                           /\ result' = [result EXCEPT ![p] =
                                           Res("text", "No lab results found.", "", <<>>)]
                      ELSE /\ pc' = [pc EXCEPT ![p] = "download"]
                           /\ result' = result
    /\ UNCHANGED <<envVars, entry, authVars, folders, folder_id, dlVars>>

\* `while done is False`
LoopContinues(d) == d = FALSE

\* Mutation: the failure is swallowed inside the loop, which asks again.
ChunkFailureRetried(p) ==
    /\ failedAt' = [failedAt EXCEPT ![p] = "chunk failed"]
    /\ UNCHANGED <<pc, result, fh, chunks, done>>

\* healthcare_mcp_server.py 163, 168-169: next_chunk raised.  The exception
\* leaves the loop and is caught by the tool's handler.
ChunkFailure(p) ==
    /\ Raise(p, "chunk failed")
    /\ UNCHANGED <<fh, chunks, done>>

\* healthcare_mcp_server.py 162-163: one turn of the download loop.  The
\* transport hands over a chunk and says whether it was the last, or fails.
NextChunk(p) ==
    /\ pc[p] = "download"
    /\ chunkCalls' = [chunkCalls EXCEPT ![p] = @ + 1]
    /\ \E ok \in BOOLEAN :
         IF ~ok
         THEN ChunkFailure(p)
         ELSE \E chunk \in Chunks :
              \E d \in {b \in BOOLEAN : Len(chunks[p]) + 1 < MaxChunks \/ b} :
                /\ fh' = [fh EXCEPT ![p] = WriteChunk(@, chunk)]
                /\ chunks' = [chunks EXCEPT ![p] = Append(@, chunk)]
                /\ done' = [done EXCEPT ![p] = d]
                /\ pc' = [pc EXCEPT ![p] =
                            IF LoopContinues(d) THEN "download" ELSE "decode"]
                /\ UNCHANGED <<result, failedAt>>
    /\ UNCHANGED <<envVars, entry, authVars, listVars>>

\* healthcare_mcp_server.py 165-166: decode the buffer and format the reply.
Decode(p) ==
    /\ pc[p] = "decode"
    /\ LET content == Utf8Decode(fh[p])
       IN IF content = None
          THEN Raise(p, "'utf-8' codec can't decode")
          ELSE /\ pc' = [pc EXCEPT ![p] = "done"]
               /\ result' = [result EXCEPT ![p] =
                               Res("text", "Latest lab results:", "", content[1])]
               /\ failedAt' = failedAt
    /\ UNCHANGED <<envVars, entry, authVars, listVars, dlVars>>

\* ------------------------------------------------- the sequential program
\* main.py and the tool server are single-threaded: one process, one
\* invocation at a time.
Main == "p1"

Next ==
    \/ Tick
    \/ Call(Main)
    \/ LoadToken(Main)
    \/ Refresh(Main)
    \/ Authorize(Main)
    \/ SaveToken(Main)
    \/ FindFolder(Main)
    \/ ListFiles(Main)
    \/ SearchDocuments(Main)
    \/ LabQuery(Main)
    \/ NextChunk(Main)
    \/ Decode(Main)

Spec == Init /\ [][Next]_vars

\* ------------------------------- two processes in the credential provider
NextConc ==
    \/ Tick
    \/ \E p \in Procs : CallProvider(p)
    \/ \E p \in Procs : LoadToken(p)
    \/ \E p \in Procs : Refresh(p)
    \/ \E p \in Procs : Authorize(p)
    \/ \E p \in Procs : SaveToken(p)

SpecConc == Init /\ [][NextConc]_vars

\* ================================================================= claims
LoadedCred(p) == Load(TokenFile(entry[p]), loaded[p][1])

\* The invocation read a credential that was valid at the time it was read.
LoadedValid(p) ==
    /\ pc[p] \notin {"idle", "load"}
    /\ loaded[p] # None
    /\ LoadedCred(p).expiry > loadedAt[p]

\* The invocation read a credential that was expired and had a refresh token.
LoadedRefreshable(p) ==
    /\ pc[p] \notin {"idle", "load"}
    /\ loaded[p] # None
    /\ LoadedCred(p).expiry <= loadedAt[p]
    /\ LoadedCred(p).refresh_token

CredentialFailures == {"load failed", "refresh failed", "authorization failed"}

\* The credential provider has returned a service to its caller.
ProviderReturned(p) ==
    /\ pc[p] \notin {"idle", "load", "refresh", "authorize", "save"}
    /\ failedAt[p] \notin CredentialFailures

\* C1: a provider called while the persisted credential exists and is valid
\* makes no refresh call and no interactive authorization, leaves the token
\* file as it was, and builds the service from the credential it loaded.
C1_ValidCredentialUntouched ==
    \A p \in Procs :
        LoadedValid(p) =>
            /\ refreshCalls[p] = 0
            /\ authCalls[p] = 0
            /\ saves[p] = 0
            /\ store[TokenFile(entry[p])] = loaded[p]
            /\ creds[p] = Some(LoadedCred(p))
            /\ failedAt[p] \notin CredentialFailures
            /\ entry[p] \in ProviderEntries =>
                 /\ pc[p] = "done"
                 /\ result[p].kind = "service"
                 /\ result[p].items = Some(LoadedCred(p))

C1_Witness ==
    \E p \in Procs :
        /\ LoadedValid(p)
        /\ entry[p] \in ProviderEntries
        /\ pc[p] = "done"
        /\ result[p].kind = "service"

\* C2: every provider call that starts with an expired credential carrying a
\* refresh token makes exactly one refresh call and no interactive
\* authorization, and on return the token file holds the refreshed credential.
C2_ExpiredIsRefreshedOnce ==
    \A p \in Procs :
        (LoadedRefreshable(p) /\ ProviderReturned(p)) =>
            /\ refreshCalls[p] = 1
            /\ authCalls[p] = 0
            /\ creds[p] # Some(LoadedCred(p))
            /\ store[TokenFile(entry[p])] =
                 Some(Dump(TokenFile(entry[p]), creds[p][1]))

\* C3: when the refresh of an expired, refreshable credential fails, the
\* provider goes on to interactive authorization; no call ends with the
\* refresh failure.
C3_RefreshFailureFallsThrough ==
    \A p \in Procs :
        (LoadedRefreshable(p) /\ refreshCalls[p] = 1 /\ pc[p] = "done") =>
            failedAt[p] # "refresh failed"

\* C4: of two provider invocations working on the same expired, refreshable
\* token file, at most one is between its refresh and its write at any time.
InRefreshAndPersist(p) == LoadedRefreshable(p) /\ pc[p] \in {"refresh", "save"}

C4_RefreshAndPersistSerialized ==
    \A p, q \in Procs :
        (p # q /\ TokenFile(entry[p]) = TokenFile(entry[q])) =>
            ~(InRefreshAndPersist(p) /\ InRefreshAndPersist(q))

\* C5: when the folder query matches two or more folders, find_folder_id
\* returns none of their identifiers (it reports the ambiguity instead).
C5_AmbiguousFolderNotResolved ==
    \A p \in Procs :
        (folders[p] # None /\ Len(GetFiles(folders[p][1])) >= 2) =>
            \A i \in 1..Len(GetFiles(folders[p][1])) :
                folder_id[p] # Some(GetFiles(folders[p][1])[i].id)

\* C6: when the folder query matches nothing (an empty 'files' list or no
\* 'files' key), find_folder_id returns None without raising and
\* list_files_in_folder returns an empty list without a file-listing query.
NoFolderMatched(p) ==
    /\ folders[p] # None
    /\ \/ folders[p][1].files = None
       \/ Len(folders[p][1].files[1]) = 0

C6_NoFolderGivesEmptyList ==
    \A p \in Procs :
        NoFolderMatched(p) =>
            /\ folder_id[p] = None
            /\ failedAt[p] = ""
            /\ pc[p] = "done"
            /\ result[p].kind = "list"
            /\ result[p].items = <<>>
            /\ fileQueries[p] = 0

C6_Witness ==
    \E p \in Procs :
        /\ folders[p] # None
        /\ folders[p][1].files = None
        /\ pc[p] = "done"
        /\ result[p].kind = "list"

\* C7: a successful list_files_in_folder returns every object of the folder,
\* however many pages the listing spans.
C7_ListingIsComplete ==
    \A p \in Procs :
        (/\ entry[p] = "list_files_in_folder"
         /\ pc[p] = "done"
         /\ failedAt[p] = ""
         /\ fileQueries[p] >= 1) =>
            /\ Len(result[p].items) = Len(remote[p])
            /\ \A i \in 1..Len(remote[p]) : result[p].items[i].id = remote[p][i].id

\* The download loop of this invocation has ended with the transport's done.
DownloadComplete(p) ==
    /\ entry[p] = "get_latest_lab_results"
    /\ pc[p] \in {"decode", "done"}
    /\ done[p]

C9_ChunkFailureAborts ==
    \A p \in Procs :
        failedAt[p] = "chunk failed" =>
            /\ pc[p] = "done"
            /\ chunkCalls[p] = Len(chunks[p]) + 1
            /\ result[p].kind = "error"
            /\ result[p].msg = "chunk failed"
            /\ result[p].items = <<>>

C9_Witness ==
    \E p \in Procs :
        /\ failedAt[p] = "chunk failed"
        /\ fh[p] # <<>>
        /\ pc[p] = "done"

\* C10: no failure of the credential step or of a remote call leaves a flow
\* as an exception: list_files_in_folder returns an empty list, the two
\* tools return their error string with the failure's message.
C10_FailuresStayInside ==
    \A p \in Procs :
        (entry[p] \in FlowEntries /\ failedAt[p] # "") =>
            /\ pc[p] = "done"
            /\ result[p].kind # "raised"
            /\ entry[p] = "list_files_in_folder" =>
                 result[p].kind = "list" /\ result[p].items = <<>>
            /\ entry[p] = "search_medical_documents" =>
                 /\ result[p].kind = "error"
                 /\ result[p].prefix = "Error accessing documents: "
                 /\ result[p].msg = failedAt[p]
            /\ entry[p] = "get_latest_lab_results" =>
                 /\ result[p].kind = "error"
                 /\ result[p].prefix = "Error retrieving lab results: "
                 /\ result[p].msg = failedAt[p]

C10_Witness ==
    \E p \in Procs :
        /\ entry[p] = "search_medical_documents"
        /\ failedAt[p] = "authorization failed"
        /\ result[p].kind = "error"

====
